---- MODULE Spec2Model ----
(***************************************************************************)
(* Model of printinplaceslewbearing.py: the SlewBearing constructor        *)
(* (parameter resolution, validation, construction of races, roller and    *)
(* assembly) and the module-level script (sample bearing, roller-count     *)
(* sweep).                                                                 *)
(*                                                                         *)
(* Number representation.  The program computes in IEEE doubles.  Lengths  *)
(* are modelled in fixed point, as integer hundredths of a millimetre, and *)
(* every arithmetic step of the source is one rounded fixed-point step     *)
(* here (round to nearest).  sqrt(2.0) is carried to four decimals and     *)
(* tan(pi/n)**(-2.0) to three.  Angles (degrees) are exact rationals       *)
(* <<numerator, denominator>>.                                             *)
(***************************************************************************)
EXTENDS Integers, Sequences, FiniteSets, TLC

(***************************************************************************)
(* Fixed-point arithmetic                                                  *)
(***************************************************************************)

\* Scale of the sqrt(2.0) literal.
RootScale == 10 * 1000

\* Scale of the tan(theta)**(-2.0) table.
TanScale == 10 * 100

\* n / d rounded to the nearest integer (d > 0), halves upwards.
RoundDiv(n, d) == (2 * n + d) \div (2 * d)

\* x / 2.0 for a diameter x: halving is exact in doubles, and the floor keeps
\* the sign of x, as the double does.
Half(x) == x \div 2

\* sqrt(2.0), scaled by RootScale.
Sqrt2 == 14142

RECURSIVE FloorSqrt(_, _, _)
\* The largest r in lo..hi with r*r <= x, by bisection (x >= lo*lo).
FloorSqrt(x, lo, hi) ==
    IF lo >= hi THEN lo
    ELSE LET mid == (lo + hi + 1) \div 2
         IN  IF mid * mid <= x THEN FloorSqrt(x, mid, hi)
                               ELSE FloorSqrt(x, lo, mid - 1)

\* math.sqrt(x), rounded to the nearest integer; x >= 0 wherever it is used.
Sqrt(x) ==
    IF x <= 0 THEN 0
    ELSE LET r == FloorSqrt(x, 0, 46340)
         IN  IF x - r * r > r THEN r + 1 ELSE r

\* x * sqrt(2.0)
MulSqrt2(x) == RoundDiv(x * Sqrt2, RootScale)

\* x * sqrt(2.0) / 2.0
MulSqrt2Half(x) == RoundDiv(x * Sqrt2, 2 * RootScale)

\* math.tan(math.pi / n) ** (-2.0) for n = 1 .. 64, scaled by TanScale.
\* tan(pi/2) is 1.6e16 in doubles, so the entry for 2 is 0; tan(pi) is
\* -1.2e-16, so the entry for 1 (6.7e31) is beyond the scale and marked -1.
TanInvSqTable ==
    << -1, 0, 333, 1000, 1894, 3000, 4312, 5828, 7549, 9472, 11599, 13928,
       16461, 19196, 22134, 25274, 28617, 32163, 35912, 39863, 44017, 48374,
       52933, 57695, 62660, 67827, 73197, 78770, 84545, 90523, 96704, 103087,
       109673, 116461, 123452, 130646, 138043, 145642, 153443, 161448, 169655,
       178064, 186677, 195491, 204509, 213729, 223152, 232778, 242606, 252637,
       262870, 273306, 283945, 294786, 305830, 317077, 328526, 340178, 352033,
       364090, 376350, 388812, 401477, 414345 >>

\* tan(pi / n) ** (-2.0); tan is odd, so the value for -n is that for n.
TanInvSq(n) ==
    LET m == IF n < 0 THEN 0 - n ELSE n
    IN  IF m \in 1..Len(TanInvSqTable) THEN TanInvSqTable[m] ELSE -1

\* s / (t + 4.0) where t = tan(theta)**(-2.0) scaled by TanScale; s >= 0.
\* The product s * TanScale is split so that it stays within 32 bits.
DivByDen(s, t) ==
    IF t < 0 THEN 0
    ELSE LET den == t + 4 * TanScale
         IN  (s \div den) * TanScale + RoundDiv((s % den) * TanScale, den)

(***************************************************************************)
(* SlewBearing.__init__: constraints, consistency checks, parameters       *)
(***************************************************************************)

\* A call's arguments: [od, id, w, rf, rs, n] = outer_diameter,
\* inner_diameter, width, roller_fit, roller_slide (hundredths of a mm) and
\* num_rollers.
Args(od, id, w, rf, rs, n) ==
    [od |-> od, id |-> id, w |-> w, rf |-> rf, rs |-> rs, n |-> n]

line_thickness == 40
line_height == 20
inner_race_min_thickness == line_thickness * 3
outer_race_min_thickness == line_thickness * 3
roller_chamfer_min_length == line_thickness * 3
outer_race_chamfer == line_thickness * 1
inner_race_chamfer == line_height * 1

\* outer_radius as the diameter itself, the halving left out.
outer_radius_Diameter(a) == a.od

outer_radius(a) == Half(a.od)
inner_radius(a) == Half(a.id)

\* any(map(lambda x: x < 0.0, (...)))
AnyNegative(a) ==
    \E x \in {inner_radius(a), outer_radius(a), a.w, a.rf, a.rs, a.n} : x < 0

\* The parity test left out.
OddRollers_Never(a) == FALSE

\* num_rollers % 2 == 1 (Python's % and TLA+'s agree: the result is in 0..1)
OddRollers(a) == a.n % 2 = 1

\* roller_theta_deg = 360.0 / (num_rollers*2.0), an exact rational.
roller_theta_deg(a) == <<360, a.n * 2>>

\* outer_radius*outer_radius + inner_radius*inner_radius
SumSquares(a) ==
    outer_radius(a) * outer_radius(a) + inner_radius(a) * inner_radius(a)

\* roller_diameter + roller_fit as line 53 computes it:
\* sqrt(2.0)*sqrt((OR*OR + IR*IR)/(tan(roller_theta_rad)**(-2.0)+4.0))
RollerPitchDiameter(a) ==
    MulSqrt2(Sqrt(DivByDen(SumSquares(a), TanInvSq(a.n))))

roller_diameter(a) == RollerPitchDiameter(a) - a.rf

\* outer_radius**2.0 + inner_radius**2.0 - (roller_diameter + roller_fit)**2.0
PitchRadicand(a) ==
    SumSquares(a) - (roller_diameter(a) + a.rf) * (roller_diameter(a) + a.rf)

PitchNotReal(a) == PitchRadicand(a) <= 0

\* (sqrt(2.0)/2.0)*sqrt(radicand)
pitch_radius(a) == MulSqrt2Half(Sqrt(PitchRadicand(a)))

InnerRaceThickness(a) ==
    pitch_radius(a) - inner_radius(a) - MulSqrt2Half(roller_diameter(a) + a.rf)

InnerRaceTooThin(a) == InnerRaceThickness(a) < inner_race_min_thickness

OuterRaceThickness(a) ==
    outer_radius(a) - pitch_radius(a) - MulSqrt2Half(roller_diameter(a) + a.rf)

OuterRaceTooThin(a) == OuterRaceThickness(a) < outer_race_min_thickness

\* The chamfer length with the width not subtracted.
roller_chamfer_length_NoWidth(a) ==
    MulSqrt2(roller_diameter(a)) + MulSqrt2Half(a.rf) - MulSqrt2Half(a.rs)

roller_chamfer_length(a) ==
    MulSqrt2(roller_diameter(a)) + MulSqrt2Half(a.rf) - MulSqrt2Half(a.rs) - a.w

RollerChamferTooSmall(a) == roller_chamfer_length(a) < roller_chamfer_min_length

\* The attributes set on self (lines 75-91).
Parameters(a) ==
    [ inner_diameter |-> a.id,
      inner_radius |-> inner_radius(a),
      outer_diameter |-> a.od,
      outer_radius |-> outer_radius(a),
      pitch_radius |-> pitch_radius(a),
      width |-> a.w,
      outer_race_chamfer |-> outer_race_chamfer,
      inner_race_chamfer |-> inner_race_chamfer,
      roller_theta |-> roller_theta_deg(a),
      roller_diameter |-> roller_diameter(a),
      roller_fit |-> a.rf,
      roller_length |-> roller_diameter(a) + a.rf - a.rs,
      roller_slide |-> a.rs,
      num_rollers |-> a.n,
      roller_chamfer_length |-> roller_chamfer_length(a) ]

\* The checks with the parity test placed before the sign test.
Raised_OddFirst(a) ==
    IF OddRollers(a) THEN "OddRollerValueError"
    ELSE IF AnyNegative(a) THEN "NegativeValueError"
    ELSE IF a.n = 0 THEN "ZeroDivisionError"
    ELSE IF PitchNotReal(a) THEN "PitchRadiusValueError"
    ELSE IF InnerRaceTooThin(a) THEN "InnerRaceValueError"
    ELSE IF OuterRaceTooThin(a) THEN "OuterRaceValueError"
    ELSE IF RollerChamferTooSmall(a) THEN "RollerChamferValueError"
    ELSE "none"

\* The exception lines 45-71 raise for arguments a, or "none".  pi/num_rollers
\* (line 51) divides by zero for num_rollers = 0.
Raised(a) ==
    IF AnyNegative(a) THEN "NegativeValueError"
    ELSE IF OddRollers(a) THEN "OddRollerValueError"
    ELSE IF a.n = 0 THEN "ZeroDivisionError"
    ELSE IF PitchNotReal(a) THEN "PitchRadiusValueError"
    ELSE IF InnerRaceTooThin(a) THEN "InnerRaceValueError"
    ELSE IF OuterRaceTooThin(a) THEN "OuterRaceValueError"
    ELSE IF RollerChamferTooSmall(a) THEN "RollerChamferValueError"
    ELSE "none"


(***************************************************************************)
(* Construction: races, roller, assembly, file name                        *)
(***************************************************************************)

\* No object / an object holding x.
None == <<>>
Some(x) == <<x>>

\* makeRaces: the magnitudes of the race's construction (blank rectangle,
\* half-diagonal of the bearing-surface cut, edge chamfer, width of the slot
\* that breaks the edge between the races).
makeRaces(self) ==
    [ blank |-> <<self.outer_radius - self.inner_radius, self.width>>,
      centre |-> <<self.outer_radius - self.pitch_radius, RoundDiv(self.width, 2)>>,
      cut |-> MulSqrt2Half(self.roller_diameter + self.roller_fit),
      chamfer |-> self.outer_race_chamfer,
      slot |-> <<MulSqrt2Half(self.roller_fit + self.roller_slide)
                   + self.roller_chamfer_length + self.inner_race_chamfer * 2,
                 self.width>> ]

\* makeRoller: the six points of the roller's profile.
makeRoller(self) ==
    LET hl == RoundDiv(self.roller_length, 2)
        fl == RoundDiv(MulSqrt2(self.width) - self.roller_length, 2)
        hd == RoundDiv(self.roller_diameter, 2)
        sh == RoundDiv(MulSqrt2(self.width) - self.roller_diameter, 2)
    IN  << <<0, 0 - hl>>, <<fl, 0 - hl>>, <<hd, 0 - sh>>,
           <<hd, sh>>, <<fl, hl>>, <<0, hl>> >>

\* The angle with the doubling of roller_theta left out.
RollerAngle_NoDouble(i, theta) == <<i * theta[1], theta[2]>>

\* i * self.roller_theta * 2.0, for the rational roller_theta
RollerAngle(i, theta) == <<i * theta[1] * 2, theta[2]>>

\* The tilt about the x axis of roller i (degrees).
RollerTilt(i) == IF i % 2 = 0 THEN 45 ELSE -45

RollerColour(i) == IF i % 2 = 0 THEN "tan1" ELSE "tan"

\* One part of the assembly; the races are added untransformed.
RacesPart ==
    [ name |-> <<"races">>, color |-> "gold", tilt |-> 0,
      translate |-> <<0, 0, 0>>, angle |-> <<0, 1>> ]

RollerPart(self, i) ==
    [ name |-> <<"roller", i>>, color |-> RollerColour(i), tilt |-> RollerTilt(i),
      translate |-> <<0, 0 - self.pitch_radius, RoundDiv(self.width, 2)>>,
      angle |-> RollerAngle(i, self.roller_theta) ]

\* makeBearingAssembly: the races, then roller i for i in range(num_rollers).
makeBearingAssembly(self) ==
    <<RacesPart>> \o [k \in 1..self.num_rollers |-> RollerPart(self, k - 1)]

\* The file exportAssyStl writes for the bearing built from arguments a:
\* "b" OD "x" ID "x" W "_" RF "x" RS "_" N ".stl"
FileName(a) == <<"b", a.od, a.id, a.w, a.rf, a.rs, a.n>>

\* "models/bearing_test.stl"
SampleFile == <<"bearing_test">>

(***************************************************************************)
(* The script: its inputs                                                  *)
(***************************************************************************)

\* The largest roller count the sweep is followed to.
MaxRollers == 40

\* sample_bearing's arguments (lines 191-199).
SampleArgs == Args(40350, 23400, 4500, 110, 150, 24)

\* The sweep's envelope OD, ID, W, RF, RS (lines 205-212) is drawn from these
\* values, from the script's own envelope and from one wide envelope on which
\* four rollers resolve.
OuterDiameters == {-2000, 0, 4000, 5000}
InnerDiameters == {-1000, 0, 2000, 3000}
Widths == {-100, 300, 600}
RollerFits == {-10, 30, 800}
RollerSlides == {-10, 90, 1200}
ScriptEnvelope == [od |-> 20000, id |-> 15000, w |-> 2000, rf |-> 30, rs |-> 90]
WideEnvelope == [od |-> 50000, id |-> 0, w |-> 20000, rf |-> 30, rs |-> 90]
Envelopes ==
    [od : OuterDiameters, id : InnerDiameters, w : Widths,
     rf : RollerFits, rs : RollerSlides]
    \cup {ScriptEnvelope, WideEnvelope}

\* The sweep's first roller count NR (line 213; the script's is 2).
StartCounts == {-3, -2, 2, 4}

(***************************************************************************)
(* State                                                                   *)
(***************************************************************************)

VARIABLES
    pc,       \* the script's position
    phase,    \* "sample" (lines 191-203) or "sweep" (lines 205-224)
    args,     \* the arguments of the SlewBearing call in progress, or None
    self,     \* the attributes set on the object under construction, or None
    races,    \* self.races, or None
    roller,   \* self.roller, or None
    assy,     \* self.assy, or None
    exc,      \* the exception in flight, or "none"
    calls,    \* the steps the current call has run, in order
    env,      \* OD, ID, W, RF, RS of the sweep, or None
    NR,       \* the sweep's roller count
    files,    \* the files written
    stdout    \* the lines printed: <<NR, exception>>

vars == <<pc, phase, args, self, races, roller, assy, exc, calls, env, NR,
          files, stdout>>

Init ==
    /\ pc = "sample"
    /\ phase = "sample"
    /\ args = None
    /\ self = None
    /\ races = None
    /\ roller = None
    /\ assy = None
    /\ exc = "none"
    /\ calls = <<>>
    /\ env = None
    /\ NR = 0
    /\ files = {}
    /\ stdout = <<>>


(***************************************************************************)
(* Actions                                                                 *)
(***************************************************************************)

\* Line 191: sample_bearing = SlewBearing(...) is called.
ConstructSample ==
    /\ pc = "sample"
    /\ args' = Some(SampleArgs)
    /\ calls' = <<>>
    /\ pc' = "validate"
    /\ UNCHANGED <<phase, self, races, roller, assy, exc, env, NR, files, stdout>>

\* The checks with the raise left out: the error is noted and __init__ goes on.
Validate_Continues ==
    /\ pc = "validate"
    /\ calls' = Append(calls, "validate")
    /\ exc' = IF Raised(args[1]) = "none" THEN exc ELSE Raised(args[1])
    /\ self' = Some(Parameters(args[1]))
    /\ pc' = "makeRaces"
    /\ UNCHANGED <<phase, args, races, roller, assy, env, NR, files, stdout>>

\* Lines 32-91: the consistency checks, then the parameters are set on self.
\* An exception leaves __init__ at once: to the handlers of the sweep's try,
\* or out of the script when sample_bearing is being built.
Validate ==
    /\ pc = "validate"
    /\ calls' = Append(calls, "validate")
    /\ IF Raised(args[1]) = "none"
       THEN /\ self' = Some(Parameters(args[1]))
            /\ pc' = "makeRaces"
            /\ exc' = exc
       ELSE /\ exc' = Raised(args[1])
            /\ pc' = IF phase = "sweep" THEN "except" ELSE "aborted"
            /\ self' = self
    /\ UNCHANGED <<phase, args, races, roller, assy, env, NR, files, stdout>>

\* Line 94: self.races = self.makeRaces()
MakeRaces ==
    /\ pc = "makeRaces"
    /\ races' = Some(makeRaces(self[1]))
    /\ calls' = Append(calls, "makeRaces")
    /\ pc' = "makeRoller"
    /\ UNCHANGED <<phase, args, self, roller, assy, exc, env, NR, files, stdout>>

\* Line 95: self.roller = self.makeRoller()
MakeRoller ==
    /\ pc = "makeRoller"
    /\ roller' = Some(makeRoller(self[1]))
    /\ calls' = Append(calls, "makeRoller")
    /\ pc' = "makeBearingAssembly"
    /\ UNCHANGED <<phase, args, self, races, assy, exc, env, NR, files, stdout>>

\* Line 96: self.assy = self.makeBearingAssembly(); __init__ returns.
MakeBearingAssembly ==
    /\ pc = "makeBearingAssembly"
    /\ assy' = Some(makeBearingAssembly(self[1]))
    /\ calls' = Append(calls, "makeBearingAssembly")
    /\ pc' = IF phase = "sweep" THEN "export" ELSE "exportSample"
    /\ UNCHANGED <<phase, args, self, races, roller, exc, env, NR, files, stdout>>

\* Lines 201-203: the sample's assembly is written to models/bearing_test.stl.
ExportSample ==
    /\ pc = "exportSample"
    /\ files' = files \cup {SampleFile}
    /\ calls' = Append(calls, "exportStl")
    /\ pc' = "setup"
    /\ UNCHANGED <<phase, args, self, races, roller, assy, exc, env, NR, stdout>>

\* Lines 205-213: OD, ID, W, RF, RS and NR are set.
SetupSweep ==
    /\ pc = "setup"
    /\ \E e \in Envelopes, n \in StartCounts :
          /\ env' = Some(e)
          /\ NR' = n
    /\ phase' = "sweep"
    /\ pc' = "loop"
    /\ UNCHANGED <<args, self, races, roller, assy, exc, calls, files, stdout>>

\* Lines 215-217: an iteration begins, SlewBearing(OD, ID, W, RF, RS, NR) is
\* called on a new object.  The count is followed up to MaxRollers.
SweepConstruct ==
    /\ pc = "loop"
    /\ NR <= MaxRollers
    /\ args' = Some(Args(env[1].od, env[1].id, env[1].w, env[1].rf, env[1].rs, NR))
    /\ self' = None
    /\ races' = None
    /\ roller' = None
    /\ assy' = None
    /\ calls' = <<>>
    /\ pc' = "validate"
    /\ UNCHANGED <<phase, exc, env, NR, files, stdout>>

\* The export writing to the sample's file name, as line 203 does.
ExportAssyStl_SampleName ==
    /\ pc = "export"
    /\ files' = files \cup {SampleFile}
    /\ calls' = Append(calls, "exportAssyStl")
    /\ NR' = NR + 2
    /\ pc' = "loop"
    /\ UNCHANGED <<phase, args, self, races, roller, assy, exc, env, stdout>>

\* Line 217, lines 182-186: .exportAssyStl("models/") writes the file; then the
\* finally clause (line 224) and the next iteration.
ExportAssyStl ==
    /\ pc = "export"
    /\ files' = files \cup {FileName(args[1])}
    /\ calls' = Append(calls, "exportAssyStl")
    /\ NR' = NR + 2
    /\ pc' = "loop"
    /\ UNCHANGED <<phase, args, self, races, roller, assy, exc, env, stdout>>

\* Lines 218-220, 224: RollerChamferValueError is printed, the loop is left
\* (the finally clause still runs).
ExceptRollerChamfer ==
    /\ pc = "except"
    /\ exc = "RollerChamferValueError"
    /\ stdout' = Append(stdout, <<NR, exc>>)
    /\ exc' = "none"
    /\ NR' = NR + 2
    /\ pc' = "done"
    /\ UNCHANGED <<phase, args, self, races, roller, assy, calls, env, files>>

\* The subclasses of ValueError the constructor raises.
ValueErrors ==
    { "NegativeValueError", "OddRollerValueError", "PitchRadiusValueError",
      "InnerRaceValueError", "OuterRaceValueError", "RollerChamferValueError" }

\* The second handler leaving the loop as the first does.
ExceptValueError_Breaks ==
    /\ pc = "except"
    /\ exc \in ValueErrors \ {"RollerChamferValueError"}
    /\ stdout' = Append(stdout, <<NR, exc>>)
    /\ exc' = "none"
    /\ NR' = NR + 2
    /\ pc' = "done"
    /\ UNCHANGED <<phase, args, self, races, roller, assy, calls, env, files>>

\* Lines 221-222, 224: any other ValueError is printed and the loop goes on.
ExceptValueError ==
    /\ pc = "except"
    /\ exc \in ValueErrors \ {"RollerChamferValueError"}
    /\ stdout' = Append(stdout, <<NR, exc>>)
    /\ exc' = "none"
    /\ NR' = NR + 2
    /\ pc' = "loop"
    /\ UNCHANGED <<phase, args, self, races, roller, assy, calls, env, files>>

\* An exception that is no ValueError matches neither handler: the finally
\* clause runs (line 224) and the exception ends the script.
Uncaught ==
    /\ pc = "except"
    /\ exc \notin ValueErrors
    /\ NR' = NR + 2
    /\ pc' = "aborted"
    /\ UNCHANGED <<phase, args, self, races, roller, assy, exc, calls, env,
                   files, stdout>>

Next ==
    \/ ConstructSample
    \/ Validate
    \/ MakeRaces
    \/ MakeRoller
    \/ MakeBearingAssembly
    \/ ExportSample
    \/ SetupSweep
    \/ SweepConstruct
    \/ ExportAssyStl
    \/ ExceptRollerChamfer
    \/ ExceptValueError
    \/ Uncaught

Spec == Init /\ [][Next]_vars


(***************************************************************************)
(* Vocabulary of the properties                                            *)
(***************************************************************************)

Range(q) == {q[k] : k \in 1..Len(q)}

IsPrefix(p, q) == Len(p) <= Len(q) /\ \A k \in 1..Len(p) : p[k] = q[k]

\* Rationals <<numerator, denominator>> with positive denominators.
RatEq(x, y) == x[1] * y[2] = y[1] * x[2]
RatLess(x, y) == x[1] * y[2] < y[1] * x[2]

\* A constructor call has run its checks: it raised, or goes on to build.
JustValidated == pc \in {"except", "makeRaces", "aborted"}

\* What the checks of the current call came to: the exception, or "none".
Outcome == IF pc = "makeRaces" THEN "none" ELSE exc

\* Some argument of the call, as the caller gave it, is negative.
NegativeInput(a) ==
    a.od < 0 \/ a.id < 0 \/ a.w < 0 \/ a.rf < 0 \/ a.rs < 0 \/ a.n < 0

\* The validation errors other than the one that ends the sweep.
SkipErrors == ValueErrors \ {"RollerChamferValueError"}

\* The files the sweep has written, and the roller counts they are for.
SweepFiles == files \ {SampleFile}
WrittenCounts == {f[7] : f \in SweepFiles}

\* The roller counts the sweep has printed an error for.
PrintedCounts == {l[1] : l \in Range(stdout)}

\* The roller counts the sweep has finished an attempt at.
AttemptedCounts == WrittenCounts \cup PrintedCounts

\* The sweep began at count c.
StartedAt(c) == c \in AttemptedCounts /\ \A d \in AttemptedCounts : c <= d

\* The sweep has ended with RollerChamferValueError at count b.
EndedAt(b) ==
    /\ pc = "done"
    /\ stdout # <<>>
    /\ stdout[Len(stdout)] = <<b, "RollerChamferValueError">>

\* Every argument of the sweep's envelope is non-negative.
NonNegativeEnvelope ==
    /\ env # None
    /\ env[1].od >= 0 /\ env[1].id >= 0 /\ env[1].w >= 0
    /\ env[1].rf >= 0 /\ env[1].rs >= 0

\* The sweep has passed the largest count followed without having ended.
SweepExhausted == pc = "loop" /\ NR > MaxRollers

\* The file of the sweep's envelope for count c:
\* b<OD>x<ID>x<W>_<RF>x<RS>_<c>.stl
SweepFile(c) ==
    <<"b", env[1].od, env[1].id, env[1].w, env[1].rf, env[1].rs, c>>

(***************************************************************************)
(* C1                                                                      *)
(***************************************************************************)

\* C1: the sweep's termination policy.  An attempt that fails writes no file;
\* a RollerChamferValueError ends the sweep, after which no further count is
\* attempted; any other validation error leaves the files as they are and the
\* sweep goes on with the count increased by 2; a successful attempt writes
\* one new file, that of its count, and the sweep goes on with the count
\* increased by 2; each attempt is for the current count and the envelope.
C1_SweepPolicy ==
    [][ /\ (pc = "validate" /\ phase = "sweep" /\ exc' # "none")
              => (pc' = "except" /\ files' = files /\ NR' = NR)
        /\ (pc = "except" /\ exc = "RollerChamferValueError")
              => (pc' = "done" /\ files' = files /\ env' = env)
        /\ (pc = "done")
              => (pc' = "done" /\ args' = args /\ files' = files)
        /\ (pc = "except" /\ exc \in SkipErrors)
              => (pc' = "loop" /\ NR' = NR + 2 /\ files' = files /\ env' = env)
        /\ (pc = "export")
              => /\ pc' = "loop" /\ NR' = NR + 2 /\ env' = env
                 /\ files' = files \cup {SweepFile(NR)}
                 /\ Cardinality(files') = Cardinality(files) + 1
        /\ (pc = "loop" /\ pc' # "loop")
              => /\ pc' = "validate"
                 /\ args' = Some(Args(env[1].od, env[1].id, env[1].w,
                                      env[1].rf, env[1].rs, NR))
                 /\ env' = env /\ NR' = NR
      ]_vars

\* A sweep that skipped a count, wrote files and was ended by the chamfer error.
C1_Witness ==
    /\ pc = "done"
    /\ Cardinality(SweepFiles) >= 2
    /\ \E l \in Range(stdout) : l[2] = "InnerRaceValueError"
    /\ stdout[Len(stdout)][2] = "RollerChamferValueError"

(***************************************************************************)
(* C2                                                                      *)
(***************************************************************************)

\* C2 as stated: for every non-negative envelope and even first count the
\* sweep ends with RollerChamferValueError (here: by the largest count
\* followed).
C2_EveryEnvelopeTerminates ==
    (NonNegativeEnvelope /\ NR % 2 = 0) => ~SweepExhausted

\* C2, amended: increasing the count ends the sweep with
\* RollerChamferValueError once some count has passed the pitch-radius and
\* race-thickness checks.  A sweep that has not ended by the largest count
\* followed has had every attempt rejected by an earlier check: it has
\* written no file and printed only NegativeValue, OddRoller, PitchRadius,
\* InnerRace or OuterRace errors.
C2_ResolvableEnvelopeTerminates ==
    SweepExhausted =>
        /\ SweepFiles = {}
        /\ \A l \in Range(stdout) : l[2] \in SkipErrors

\* A sweep on a non-negative envelope that wrote files and then ended.
C2_Witness ==
    /\ NonNegativeEnvelope
    /\ \E b \in 2..MaxRollers : EndedAt(b)
    /\ SweepFiles # {}

(***************************************************************************)
(* C3                                                                      *)
(***************************************************************************)

\* C3 as stated: when the sweep from 2 has ended at count b, every even count
\* below b has a written file.
C3_EveryCountBelowBoundWritten ==
    \A b \in 2..MaxRollers :
        (EndedAt(b) /\ StartedAt(2)) =>
            \A c \in 2..(b - 1) : c % 2 = 0 => SweepFile(c) \in files

\* C3, amended: when the sweep from 2 has ended at count b, every even count
\* below b has been attempted, and has a written file unless its attempt was
\* rejected by the pitch-radius, inner-race or outer-race check (whose error
\* was printed instead).
C3_EveryResolvedCountBelowBoundWritten ==
    \A b \in 2..MaxRollers :
        (EndedAt(b) /\ StartedAt(2)) =>
            \A c \in 2..(b - 1) : c % 2 = 0 =>
                \/ /\ SweepFile(c) \in files
                   /\ c \notin PrintedCounts
                \/ /\ SweepFile(c) \notin files
                   /\ \E e \in { "PitchRadiusValueError", "InnerRaceValueError",
                                 "OuterRaceValueError" } : <<c, e>> \in Range(stdout)

\* A sweep from 2 that ended after rejected counts and written counts.
C3_Witness ==
    /\ \E b \in 2..MaxRollers : EndedAt(b)
    /\ StartedAt(2)
    /\ Cardinality(WrittenCounts) >= 2
    /\ Len(stdout) >= 3


(***************************************************************************)
(* C4                                                                      *)
(***************************************************************************)

\* The six checks in the order the claim gives, each with its error and
\* whether arguments a fail it.
OrderedChecks(a) ==
    << <<"NegativeValueError", NegativeInput(a)>>,
       <<"OddRollerValueError", a.n % 2 = 1>>,
       <<"PitchRadiusValueError", PitchNotReal(a)>>,
       <<"InnerRaceValueError", InnerRaceTooThin(a)>>,
       <<"OuterRaceValueError", OuterRaceTooThin(a)>>,
       <<"RollerChamferValueError", RollerChamferTooSmall(a)>> >>

\* The error of the first check in that order that a fails, or "none".
FirstFailing(a) ==
    LET checks == OrderedChecks(a)
        failing == {k \in 1..6 : checks[k][2]}
    IN  IF failing = {} THEN "none"
        ELSE checks[CHOOSE k \in failing : \A j \in failing : k <= j][1]

SweepOrder ==
    <<"validate", "makeRaces", "makeRoller", "makeBearingAssembly", "exportAssyStl">>
SampleOrder ==
    <<"validate", "makeRaces", "makeRoller", "makeBearingAssembly", "exportStl">>

\* C6: no partial construction.  The steps of every call are a prefix of
\* checks, races, roller, assembly, export; each object exists exactly when
\* its step has run; and for arguments the checks reject, no step after the
\* checks runs, no object is made and no file of the call is written.
C6_NoPartialConstruction ==
    /\ IsPrefix(calls, SweepOrder) \/ IsPrefix(calls, SampleOrder)
    /\ (self # None) => "validate" \in Range(calls)
    /\ (races # None) <=> "makeRaces" \in Range(calls)
    /\ (roller # None) <=> "makeRoller" \in Range(calls)
    /\ (assy # None) <=> "makeBearingAssembly" \in Range(calls)
    /\ (args # None /\ Raised(args[1]) \in ValueErrors) =>
          /\ IsPrefix(calls, <<"validate">>)
          /\ self = None /\ races = None /\ roller = None /\ assy = None
          /\ FileName(args[1]) \notin files

\* A rejected call has been handled and the sweep is about to go on.
C6_Witness ==
    /\ pc = "loop"
    /\ calls = <<"validate">>
    /\ stdout # <<>>
    /\ stdout[Len(stdout)] = <<args[1].n, "OuterRaceValueError">>

(***************************************************************************)
(* C7                                                                      *)
(***************************************************************************)

\* C7 as stated: when the checks pass, roller_diameter > 0 and
\* roller_length = roller_diameter + roller_fit - roller_slide > 0.
C7_PositiveRoller ==
    (self # None) =>
        /\ self[1].roller_diameter > 0
        /\ self[1].roller_length
              = self[1].roller_diameter + self[1].roller_fit - self[1].roller_slide
        /\ self[1].roller_length > 0

(***************************************************************************)
(* C8                                                                      *)
(***************************************************************************)

\* C8: when the checks pass, inner_diameter/2 < pitch_radius < outer_diameter/2.
C8_PitchBetweenRadii ==
    (self # None) =>
        /\ args[1].id < 2 * self[1].pitch_radius
        /\ 2 * self[1].pitch_radius < args[1].od

\* A call of the sweep has passed the checks, with a bore.
C8_Witness ==
    /\ phase = "sweep"
    /\ pc = "makeRaces"
    /\ self # None
    /\ args[1].id > 0

(***************************************************************************)
(* C9                                                                      *)
(***************************************************************************)

\* C9 as stated: the checks end in success or in one of the six validation
\* errors; no other exception leaves the constructor.
C9_ResolutionTotal == JustValidated => Outcome \in ValueErrors \cup {"none"}

(***************************************************************************)
(* C10                                                                     *)
(***************************************************************************)

\* The part of assembly q named <<"roller", i>>.
RollerNamed(q, i) == CHOOSE part \in Range(q) : part.name = <<"roller", i>>

\* C10: the assembly holds one race part and the rollers roller0 ..
\* roller(N-1), one each; roller i is tilted +45 degrees for even i and -45
\* for odd i and turned about the bearing axis by i*360/N degrees; the
\* angles lie in [0, 360), are pairwise different and evenly spaced, and
\* neighbours (roller N-1 and roller 0 too) have opposite tilt.  For N = 4
\* the angles are 0, 90, 180, 270.
C10_Placement ==
    (assy # None) =>
        LET q == assy[1]
            N == self[1].num_rollers
            r == [i \in 0..(N - 1) |-> RollerNamed(q, i)]
        IN  /\ Len(q) = N + 1
            /\ Cardinality({k \in 1..Len(q) : q[k].name = <<"races">>}) = 1
            /\ \A i \in 0..(N - 1) :
                  LET ri == r[i]
                  IN  /\ Cardinality({k \in 1..Len(q) : q[k].name = <<"roller", i>>}) = 1
                      /\ ri.tilt = IF i % 2 = 0 THEN 45 ELSE -45
                      /\ RatEq(ri.angle, <<i * 360, N>>)
                      /\ ~RatLess(ri.angle, <<0, 1>>)
                      /\ RatLess(ri.angle, <<360, 1>>)
                      /\ ri.tilt + r[(i + 1) % N].tilt = 0
                      /\ \A j \in (i + 1)..(N - 1) : ~RatEq(ri.angle, r[j].angle)
            /\ N = 4 => \A i \in 0..3 : RatEq(r[i].angle, <<90 * i, 1>>)

\* An assembly of four rollers has been built.
C10_Witness ==
    /\ assy # None
    /\ self[1].num_rollers = 4
    /\ Len(assy[1]) = 5


====
